---- MODULE Spec2Model ----
(***************************************************************************)
(* CloudExec: the execution agent (cmd/cloudexec/user_data.sh.tmpl), the   *)
(* shared state document it publishes to, and the DigitalOcean control     *)
(* plane (pkg/digitalocean/digitalocean.go).                               *)
(*                                                                         *)
(* The agent is a bash script run with `set -e` and a trap that binds      *)
(* cleanup to EXIT, SIGHUP, SIGINT and SIGTERM.  Bash runs a signal trap   *)
(* between two commands, on top of whatever was running, and resumes the   *)
(* interrupted code when the handler returns; a command that fails under   *)
(* `set -e` ends the shell, which runs the EXIT trap unless the EXIT trap  *)
(* is what is running.  The agent is therefore a stack of frames.          *)
(*                                                                         *)
(* A trapped signal that arrives while a command runs is handled when the  *)
(* command has ended, also when the command has failed: the handler runs   *)
(* first and the shell exits after it.  Every command is a step of its     *)
(* frame and a failed command leaves the frame at "failed", so the handler *)
(* of such a signal is the Signal step taken between the command's step    *)
(* and the next step of the frame.  Before the trap is installed SIGHUP    *)
(* and SIGTERM kill the shell; SIGINT kills it unless it is waiting for a  *)
(* foreground command, which it then outlives.                             *)
(***************************************************************************)
EXTENDS Integers, Sequences, FiniteSets, TLC

(***************************************************************************)
(* Bounds                                                                  *)
(***************************************************************************)
MaxSignals == 1
MaxFaults == 1
\* The clock advances in steps of TickStep seconds, up to MaxTime.
TickStep == 90
MaxTime == 90

\* Page size of the provider's listings (scaled down from the default 20).
PerPage == 2

MaxDroplets == 3
MaxApiFaults == 1

\* Page size of the snapshot listing (scaled down from 50).
SnapPerPage == 2

MaxSnaps == 3

\* Page size of the SSH key listing (scaled down from 200).
KeyPerPage == 2

MaxKeys == 3
MaxCalls == 2
\* Calls of DeleteDroplet and GetDropletById in a run.
MaxByIdCalls == 1

(***************************************************************************)
(* Program constants                                                       *)
(***************************************************************************)
sync_heartbeat == 60

Absent == 0 - 1

AgentJob == 1

OtherJob == 2

cloudexecTag == "Purpose:cloudexec"

Terminal == {"completed", "failed", "timedout"}

\* Timeouts the operator may bake into the rendered script ({{.Timeout}}).
TimeoutChoices == {30, 90}

\* The tag sets the metadata endpoint may report for the instance: each of
\* the Purpose, Owner and Job tags may be missing.
TagChoices ==
  { [purpose |-> TRUE,  owner |-> "alice", job |-> AgentJob],
    [purpose |-> FALSE, owner |-> "alice", job |-> AgentJob],
    [purpose |-> TRUE,  owner |-> "",      job |-> AgentJob],
    [purpose |-> TRUE,  owner |-> "alice", job |-> 0] }

VARIABLES
  \* ---- the agent process ----
  proc,                 \* "running" | "ended" | "destroyed" | "deleted"
  stack,                \* frames; the last one is the one executing
  armed,                \* the trap of line 210 is installed
  exitTrap,             \* the EXIT trap has been started
  CLOUDEXEC, USERNAME, JOB_ID,
  TIMEOUT,
  COMPLETED, TIMEDOUT,
  start_time, end_time, next_sync,
  current_time,         \* the time the monitoring loop read last
  exit_code,
  \* ---- the instance ----
  now,                  \* wall clock, seconds
  workload,             \* "none" | "running" | "exited"
  exit_code_flag,       \* content of /tmp/cloudexec-exit-code, Absent if none
  existing_state_file,  \* /tmp/existing_state.json
  merged_state_file,    \* /tmp/merged_state.json
  \* ---- the outside world ----
  doc,                  \* state/state.json: the sequence of job records
  deleteRequests,       \* DELETE requests issued for the instance
  deleteAccepted,       \* the provider accepted one of them
  signals, faults,      \* signals delivered, operations failed so far
  \* ---- history ----
  cleanupRuns,          \* times the cleanup handler was invoked
  pubs,                 \* statuses the agent wrote to its record, in order
  arm,                  \* the arm of the completion race a poll has taken
  sigMidRun,            \* a signal came while the workload ran, before an arm
  raced,                \* a poll found an exit code with the deadline passed
  did,                  \* the kinds of job work done so far
  late                  \* a write or an upload followed a DELETE request

agentVars ==
  << proc, stack, armed, exitTrap, CLOUDEXEC, USERNAME, JOB_ID, TIMEOUT,
     COMPLETED, TIMEDOUT, start_time, end_time, next_sync, current_time,
     exit_code,
     now, workload, exit_code_flag, existing_state_file, merged_state_file,
     doc, deleteRequests, deleteAccepted, signals, faults,
     cleanupRuns, pubs, arm, sigMidRun, raced, did, late >>

\* ---- concurrent writers of state.json ----
VARIABLES
  wpc,                  \* writer -> position in its fetch/modify/write
  wtodo,                \* agent -> statuses it has still to publish
  wexisting, wmerged,   \* writer -> its instance's temporary files
  wlast                 \* agent -> the last status it published

sharedVars == << wpc, wtodo, wexisting, wmerged, wlast >>

\* ---- the control plane: GetAllDroplets ----
VARIABLES
  provider,             \* the account's droplets, in listing order
  owner,                \* config.Username
  gd_pc,                \* "call" | "done"
  gd_page,              \* opts.Page
  gd_droplets,          \* the droplets slice being built and returned
  gd_err,               \* the error returned, "" for nil
  gd_calls,             \* ListByTag requests issued
  apiFaults             \* provider requests that failed so far

listVars ==
  << provider, owner, gd_pc, gd_page, gd_droplets, gd_err, gd_calls,
     apiFaults >>

\* ---- the control plane: GetLatestSnapshot ----
VARIABLES
  snaps,                \* the account's droplet snapshots, in listing order
  loopvar,              \* the build gives each iteration of a range loop
                        \* its own variable (Go 1.22 on), or the loop one
  gs_pc,                \* "idle" | "start" | "call" | "done"
  gs_page,              \* options.Page
  gs_latest,            \* latestSnapshot and latestCreatedAt
  gs_result,            \* the Snapshot returned
  gs_err,               \* the error returned, "" for nil
  snapFaults            \* snapshot listings that failed so far

snapVars ==
  << snaps, loopvar, gs_pc, gs_page, gs_latest, gs_result, gs_err,
     snapFaults >>

\* ---- the control plane: CreateDroplet ----
VARIABLES
  keys,                 \* the account's SSH keys, in listing order
  created,              \* the droplets the provider was made to create
  cd_pc,                \* position in CreateDroplet, "done" after a return
  cd_publicKey,         \* the publicKey argument
  cd_fp,                \* sshKeyFingerprint
  cd_action,            \* the response to the create carried an action link
  cd_newDroplet,        \* newDroplet
  cd_result,            \* the Droplet returned
  cd_err,               \* the error returned, "" for nil
  cd_calls,             \* calls of CreateDroplet begun
  createFaults,         \* provider requests of CreateDroplet that failed
  \* ---- history ----
  cd_reqs,              \* provider requests of this call, in order
  cd_failedAt,          \* index of the first of them that failed, or 0
  cd_keys0,             \* the account's keys when this call began
  cd_prev               \* argument and outcome of the call before

createVars ==
  << keys, created, cd_pc, cd_publicKey, cd_fp, cd_action, cd_newDroplet,
     cd_result, cd_err, cd_calls, createFaults, cd_reqs, cd_failedAt,
     cd_keys0, cd_prev >>

\* ---- the control plane: DeleteDroplet and GetDropletById ----
VARIABLES
  deleted,              \* ids of the droplets the provider has deleted
  dd_err,               \* the error DeleteDroplet returned, "" for nil
  gb_result,            \* the Droplet GetDropletById returned
  gb_err,               \* the error GetDropletById returned, "" for nil
  byIdCalls             \* calls of the two begun

byIdVars == << deleted, dd_err, gb_result, gb_err, byIdCalls >>

vars ==
  << agentVars, sharedVars, listVars, snapVars, createVars, byIdVars >>

notAgent == << sharedVars, listVars, snapVars, createVars, byIdVars >>

notShared == << listVars, snapVars, createVars, byIdVars >>

notList == << sharedVars, snapVars, createVars, byIdVars >>

notSnap == << agentVars, sharedVars, listVars, createVars, byIdVars >>

notCreate == << agentVars, sharedVars, listVars, byIdVars >>

ctl == << proc, stack, exitTrap, cleanupRuns >>

ident == << CLOUDEXEC, USERNAME, JOB_ID, TIMEOUT >>

flags == << COMPLETED, TIMEDOUT >>

timer == << start_time, end_time, next_sync, current_time >>

files == << existing_state_file, merged_state_file >>

job == << workload, exit_code_flag, exit_code, arm, raced >>

world == << doc, pubs, deleteRequests, deleteAccepted >>

env == << now, signals, sigMidRun >>

(***************************************************************************)
(* The shared state document                                               *)
(***************************************************************************)
\* A record as the operator appends it at launch.  `by` is a history field:
\* which code path published the status the record holds.
NewJob(id, t) ==
  [id |-> id, status |-> "provisioned", created_at |-> t, updated_at |-> t,
   completed_at |-> Absent, by |-> "operator"]

NoFile == [exists |-> FALSE, content |-> << >>]

File(d) == [exists |-> TRUE, content |-> d]

\* A variant of the jq program that stamps completed_at on every terminal
\* status instead of on the transitions marked completed.
jq_update_stampTerminal(d, id, new_status, updated_at, completed, by) ==
  [i \in DOMAIN d |->
     IF d[i].id = id
       THEN [d[i] EXCEPT !.status = new_status,
                         !.updated_at = updated_at,
                         !.completed_at = IF new_status \in Terminal
                                            THEN updated_at ELSE @,
                         !.by = by]
       ELSE d[i]]

\* The jq program of update_state: map over .jobs, rewriting the records
\* whose id is JOB_ID.
jq_update(d, id, new_status, updated_at, completed, by) ==
  [i \in DOMAIN d |->
     IF d[i].id = id
       THEN [d[i] EXCEPT !.status = new_status,
                         !.updated_at = updated_at,
                         !.completed_at = IF completed THEN updated_at ELSE @,
                         !.by = by]
       ELSE d[i]]

HasJob(d, id) == \E i \in DOMAIN d : d[i].id = id

JobRecord(d, id) == d[CHOOSE i \in DOMAIN d : d[i].id = id]

\* The documents the agent may find at boot: its own record appended by the
\* operator next to another job's finished record, or no record of its own.
DocChoices ==
  LET other == [id |-> OtherJob, status |-> "completed", created_at |-> 0,
                updated_at |-> 0, completed_at |-> 0, by |-> "exit"]
  IN  { << NewJob(AgentJob, 0), other >>, << other >> }

(***************************************************************************)
(* The agent: frames                                                       *)
(***************************************************************************)
Frame(k, pc, new_status, updated_at, ret) ==
  [k |-> k, pc |-> pc, new_status |-> new_status, updated_at |-> updated_at,
   ret |-> ret]

Top == stack[Len(stack)]

At(pc) == proc = "running" /\ stack # << >> /\ Top.pc = pc

Goto(pc) == stack' = [stack EXCEPT ![Len(stack)].pc = pc]

\* The executing frame goes on to its next command.
Cont(pc) == Goto(pc) /\ UNCHANGED << proc, exitTrap, cleanupRuns >>

\* A command of the executing frame has ended with a non-zero status (or
\* the test before an `exit 1` has failed): under set -e the shell is about
\* to exit, and a trapped signal that arrived while the command ran is
\* handled first.  Nothing that was running is resumed: the frame's locals
\* and the frames below it are not read again.
Fail ==
  /\ stack' = << Frame(Top.k, "failed", "-", Absent, "-") >>
  /\ UNCHANGED << proc, exitTrap, cleanupRuns >>

\* A call of update_state from the executing frame (lines 183-185): the
\* local new_status is set, and the date of line 186 is next.
Call_update_state(new_status, ret) ==
  stack' = [stack EXCEPT ![Len(stack)] =
              Frame(@.k, "us_date", new_status, Absent, ret)]

\* Which code path a frame's update_state call belongs to.
By(f) ==
  IF f.k # "main" THEN "cleanup"
  ELSE IF f.ret = "tmux" THEN "running"
  ELSE IF f.ret = "rm_flag" THEN "exit"
  ELSE "timeout"

\* cleanup, from its invocation to its first external command: `failed` is
\* published when neither flag is set, else the final upload is next.
cleanup(k) ==
  IF ~COMPLETED /\ ~TIMEDOUT
    THEN Frame(k, "us_date", "failed", Absent, "c_upload")
    ELSE Frame(k, "c_upload", "-", Absent, "-")

\* A variant of the exit in which cleanup runs whether or not the trap
\* was installed.
Exit_untrapped ==
  IF ~exitTrap
    THEN /\ stack' = << cleanup("exit") >>
         /\ exitTrap' = TRUE
         /\ cleanupRuns' = cleanupRuns + 1
         /\ proc' = proc
    ELSE /\ stack' = << >>
         /\ proc' = "ended"
         /\ UNCHANGED << exitTrap, cleanupRuns >>

\* The shell exits (exit N, set -e after a failed command, or the end of the
\* script): the EXIT trap runs once if it is installed and has not started;
\* everything that was running is abandoned.  Handlers of signals that
\* arrived during a failed command have run before this step (see Fail).
Exit ==
  IF armed /\ ~exitTrap
    THEN /\ stack' = << cleanup("exit") >>
         /\ exitTrap' = TRUE
         /\ cleanupRuns' = cleanupRuns + 1
         /\ proc' = proc
    ELSE /\ stack' = << >>
         /\ proc' = "ended"
         /\ UNCHANGED << exitTrap, cleanupRuns >>

\* The handler returns: a signal handler resumes the interrupted frame, the
\* EXIT handler ends the process.
Return ==
  IF Top.k = "exit"
    THEN /\ stack' = << >>
         /\ proc' = "ended"
         /\ UNCHANGED << exitTrap, cleanupRuns >>
    ELSE /\ stack' = SubSeq(stack, 1, Len(stack) - 1)
         /\ UNCHANGED << proc, exitTrap, cleanupRuns >>

hist == << did, late >>

\* The agent does a piece of job work of the given kind.
Did(kind) == did' = did \cup {kind}

\* The agent writes the state document or uploads a file.
Wrote == late' = (late \/ deleteRequests > 0)

\* An operation on object storage (or the network) may fail.
MayFail(ok) ==
  /\ ~ok => faults < MaxFaults
  /\ faults' = IF ok THEN faults ELSE faults + 1

\* The variables of the agent as the script finds them when it starts.
AgentFresh ==
  /\ armed = FALSE
  /\ exitTrap = FALSE
  /\ CLOUDEXEC = FALSE
  /\ USERNAME = ""
  /\ JOB_ID = 0
  /\ COMPLETED = FALSE
  /\ TIMEDOUT = FALSE
  /\ start_time = Absent
  /\ end_time = Absent
  /\ next_sync = Absent
  /\ current_time = Absent
  /\ exit_code = Absent
  /\ now = 0
  /\ workload = "none"
  /\ exit_code_flag = Absent
  /\ existing_state_file = NoFile
  /\ merged_state_file = NoFile
  /\ deleteRequests = 0
  /\ deleteAccepted = FALSE
  /\ signals = 0
  /\ faults = 0
  /\ cleanupRuns = 0
  /\ pubs = << >>
  /\ arm = "none"
  /\ sigMidRun = FALSE
  /\ raced = FALSE
  /\ did = {}
  /\ late = FALSE

AgentInit ==
  /\ proc = "running"
  /\ stack = << Frame("main", "bootstrap", "-", Absent, "-") >>
  /\ TIMEOUT \in TimeoutChoices
  /\ doc \in DocChoices
  /\ AgentFresh

\* No agent is modelled: the specifications of the other components.
AgentIdle ==
  /\ proc = "ended"
  /\ stack = << >>
  /\ TIMEOUT = 0
  /\ AgentFresh

(***************************************************************************)
(* The agent: the script, top to bottom                                    *)
(***************************************************************************)
\* Lines 29-57: prerequisites; any failing install ends the script.
Bootstrap ==
  /\ At("bootstrap")
  /\ UNCHANGED notAgent
  /\ UNCHANGED hist
  /\ \E ok \in BOOLEAN :
       IF ok THEN Goto("tags") /\ UNCHANGED << proc, exitTrap, cleanupRuns >>
             ELSE Fail
  /\ UNCHANGED << armed, ident, flags, timer, files, job, world, env, faults >>

\* Lines 62-82: read the instance's tags from the metadata service; a
\* failed request ends the script with nothing assigned, and the "not a
\* CloudExec droplet" branch only prints.
ReadTags ==
  /\ At("tags")
  /\ UNCHANGED notAgent
  /\ UNCHANGED hist
  /\ \E ok \in BOOLEAN :
       /\ MayFail(ok)
       /\ IF ok
            THEN /\ \E t \in TagChoices :
                      /\ CLOUDEXEC' = t.purpose
                      /\ USERNAME' = t.owner
                      /\ JOB_ID' = t.job
                 /\ Goto("checks")
                 /\ UNCHANGED << proc, exitTrap, cleanupRuns >>
            ELSE /\ UNCHANGED << CLOUDEXEC, USERNAME, JOB_ID >>
                 /\ Fail
  /\ UNCHANGED << armed, TIMEOUT, flags, timer, files, job, world, env >>

\* Lines 84-108: a job id, the provider token and the storage credentials
\* are required.
CheckEnv ==
  /\ At("checks")
  /\ UNCHANGED notAgent
  /\ UNCHANGED hist
  /\ \E token \in BOOLEAN, s3 \in BOOLEAN :
       IF JOB_ID = 0 \/ ~token \/ ~s3
         THEN Exit
         ELSE Goto("trap") /\ UNCHANGED << proc, exitTrap, cleanupRuns >>
  /\ UNCHANGED << armed, ident, flags, timer, files, job, world, env, faults >>

\* Lines 141-142 and 210: the flags and the trap.
ArmTrap ==
  /\ At("trap")
  /\ UNCHANGED notAgent
  /\ UNCHANGED hist
  /\ COMPLETED' = FALSE
  /\ TIMEDOUT' = FALSE
  /\ armed' = TRUE
  /\ Goto("setup")
  /\ UNCHANGED << proc, exitTrap, cleanupRuns, ident, timer, files, job,
                  world, env, faults >>

\* Line 217: the caller's setup commands.
RunSetup ==
  /\ At("setup")
  /\ UNCHANGED notAgent
  /\ Did("setup")
  /\ UNCHANGED late
  /\ \E ok \in BOOLEAN :
       IF ok THEN Goto("download") /\ UNCHANGED << proc, exitTrap, cleanupRuns >>
             ELSE Fail
  /\ UNCHANGED << armed, ident, flags, timer, files, job, world, env, faults >>

\* Lines 219-224: the input archive; a failed get and an empty archive both
\* end the script.
DownloadInput ==
  /\ At("download")
  /\ UNCHANGED notAgent
  /\ Did("download")
  /\ UNCHANGED late
  /\ \E ok \in BOOLEAN, nonempty \in BOOLEAN :
       /\ MayFail(ok)
       /\ IF ok /\ nonempty
            THEN Goto("unzip") /\ UNCHANGED << proc, exitTrap, cleanupRuns >>
            ELSE Fail
  /\ UNCHANGED << armed, ident, flags, timer, files, job, world, env >>

\* Lines 226-238.
Unzip ==
  /\ At("unzip")
  /\ UNCHANGED notAgent
  /\ UNCHANGED hist
  /\ \E ok \in BOOLEAN :
       IF ok THEN Goto("running") /\ UNCHANGED << proc, exitTrap, cleanupRuns >>
             ELSE Fail
  /\ UNCHANGED << armed, ident, flags, timer, files, job, world, env, faults >>

\* A variant of line 241 that goes on to the workload without publishing.
PublishRunning_skip ==
  /\ At("running")
  /\ UNCHANGED notAgent
  /\ UNCHANGED hist
  /\ Goto("tmux")
  /\ UNCHANGED << proc, exitTrap, cleanupRuns, armed, ident, flags, timer,
                  files, job, world, env, faults >>

\* Line 241.
PublishRunning ==
  /\ At("running")
  /\ UNCHANGED notAgent
  /\ UNCHANGED hist
  /\ Call_update_state("running", "tmux")
  /\ UNCHANGED << proc, exitTrap, cleanupRuns, armed, ident, flags, timer,
                  files, job, world, env, faults >>

\* update_state, lines 186-187: the local updated_at is read from date.
UsDate ==
  /\ At("us_date")
  /\ UNCHANGED notAgent
  /\ UNCHANGED hist
  /\ stack' = [stack EXCEPT ![Len(stack)].updated_at = now,
                            ![Len(stack)].pc = "us_get"]
  /\ UNCHANGED << proc, exitTrap, cleanupRuns, armed, ident, flags, timer,
                  files, job, world, env, faults >>

\* update_state, line 197: fetch the whole document into the temporary file.
UsGet ==
  /\ At("us_get")
  /\ UNCHANGED notAgent
  /\ UNCHANGED hist
  /\ \E ok \in BOOLEAN :
       /\ MayFail(ok)
       /\ IF ok
            THEN /\ existing_state_file' = File(doc)
                 /\ Cont("us_jq")
            ELSE /\ UNCHANGED existing_state_file
                 /\ Fail
  /\ UNCHANGED << armed, ident, flags, timer, merged_state_file, job, world,
                  env >>

\* update_state, line 200: jq rewrites the job's record into the merged
\* file; COMPLETED is expanded here.  The redirection creates the merged
\* file even when jq fails because the existing file is gone.
UsJq ==
  /\ At("us_jq")
  /\ UNCHANGED notAgent
  /\ UNCHANGED hist
  /\ IF existing_state_file.exists
       THEN /\ merged_state_file' =
                 File(jq_update(existing_state_file.content, JOB_ID,
                                Top.new_status, Top.updated_at, COMPLETED,
                                By(Top)))
            /\ Cont("us_put")
       ELSE /\ merged_state_file' = File(<< >>)
            /\ Fail
  /\ UNCHANGED << armed, ident, flags, timer, existing_state_file, job,
                  world, env, faults >>

\* update_state, line 203: write the whole document back.
UsPut ==
  /\ At("us_put")
  /\ UNCHANGED notAgent
  /\ IF merged_state_file.exists
       THEN \E ok \in BOOLEAN :
              /\ MayFail(ok)
              /\ IF ok
                   THEN /\ doc' = merged_state_file.content
                        /\ pubs' = IF HasJob(merged_state_file.content, JOB_ID)
                                     THEN Append(pubs, Top.new_status)
                                     ELSE pubs
                        /\ Did(Top.new_status)
                        /\ Wrote
                        /\ Cont("us_rm")
                   ELSE /\ UNCHANGED << doc, pubs, hist >>
                        /\ Fail
       ELSE /\ UNCHANGED << doc, pubs, faults, hist >>
            /\ Fail
  /\ UNCHANGED << armed, ident, flags, timer, files, job, deleteRequests,
                  deleteAccepted, env >>

\* update_state, line 206: rm of both temporary files fails if one is gone.
UsRm ==
  /\ At("us_rm")
  /\ UNCHANGED notAgent
  /\ UNCHANGED hist
  /\ existing_state_file' = NoFile
  /\ merged_state_file' = NoFile
  /\ IF existing_state_file.exists /\ merged_state_file.exists
       THEN Cont(Top.ret)
       ELSE Fail
  /\ UNCHANGED << armed, ident, flags, timer, job, world, env, faults >>

\* Line 267: the workload starts in its tmux session, or tmux fails and
\* the script ends with no workload.
StartWorkload ==
  /\ At("tmux")
  /\ UNCHANGED notAgent
  /\ UNCHANGED late
  /\ \E ok \in BOOLEAN :
       IF ok THEN /\ workload' = "running"
                  /\ Did("tmux")
                  /\ Cont("timer")
             ELSE /\ UNCHANGED << workload, did >>
                  /\ Fail
  /\ UNCHANGED << armed, ident, flags, timer, files, exit_code_flag,
                  exit_code, arm, raced, world, env, faults >>

\* Line 269: the start time is read from date.
StartTimer ==
  /\ At("timer")
  /\ UNCHANGED notAgent
  /\ UNCHANGED hist
  /\ start_time' = now
  /\ Cont("timer_sync")
  /\ UNCHANGED << armed, ident, flags, end_time, next_sync, current_time,
                  files, job, world, env, faults >>

\* Lines 270-272: the first heartbeat is due sync_heartbeat seconds after
\* the start; the start time is formatted by a call of date.
TimerSync ==
  /\ At("timer_sync")
  /\ UNCHANGED notAgent
  /\ UNCHANGED hist
  /\ next_sync' = start_time + sync_heartbeat
  /\ Cont("timer_end")
  /\ UNCHANGED << armed, ident, flags, start_time, end_time, current_time,
                  files, job, world, env, faults >>

\* Lines 273-276: the deadline is TIMEOUT seconds after the start; it is
\* formatted by a call of date and both times are printed.
TimerEnd ==
  /\ At("timer_end")
  /\ UNCHANGED notAgent
  /\ UNCHANGED hist
  /\ end_time' = start_time + TIMEOUT
  /\ Cont("loop")
  /\ UNCHANGED << armed, ident, flags, start_time, next_sync, current_time,
                  files, job, world, env, faults >>

\* Line 285: an iteration of the monitoring loop begins by reading the
\* time from date.
LoopDate ==
  /\ At("loop")
  /\ UNCHANGED notAgent
  /\ UNCHANGED hist
  /\ current_time' = now
  /\ Cont("poll")
  /\ UNCHANGED << armed, ident, flags, start_time, end_time, next_sync,
                  files, job, world, env, faults >>

\* A variant of the poll that tests the deadline before the exit code.
Poll_timeoutFirst ==
  /\ At("poll")
  /\ UNCHANGED notAgent
  /\ UNCHANGED hist
  /\ IF current_time > end_time
       THEN /\ UNCHANGED << exit_code, raced >>
            /\ arm' = "timeout"
            /\ Cont("timeout_arm")
       ELSE IF exit_code_flag # Absent
         THEN /\ exit_code' = exit_code_flag
              /\ arm' = "exit"
              /\ raced' = FALSE
              /\ Cont("exit_arm")
         ELSE /\ UNCHANGED << exit_code, arm, raced >>
              /\ IF current_time > next_sync THEN Cont("heartbeat") ELSE Cont("sleep")
  /\ UNCHANGED << armed, ident, flags, timer, files, workload,
                  exit_code_flag, world, env, faults >>

\* Lines 287-310: one poll on the time read at line 285; the first test
\* that holds decides.
Poll ==
  /\ At("poll")
  /\ UNCHANGED notAgent
  /\ UNCHANGED hist
  /\ IF exit_code_flag # Absent
       THEN /\ exit_code' = exit_code_flag
            /\ arm' = "exit"
            /\ raced' = (current_time > end_time)
            /\ Cont("exit_arm")
       ELSE /\ UNCHANGED exit_code
            /\ arm' = IF current_time > end_time THEN "timeout" ELSE arm
            /\ UNCHANGED raced
            /\ IF current_time > end_time THEN Cont("timeout_arm")
               ELSE IF current_time > next_sync THEN Cont("heartbeat")
               ELSE Cont("sleep")
  /\ UNCHANGED << armed, ident, flags, timer, files, workload,
                  exit_code_flag, world, env, faults >>

\* Lines 289-291: COMPLETED is set.
ExitArm ==
  /\ At("exit_arm")
  /\ UNCHANGED notAgent
  /\ UNCHANGED hist
  /\ COMPLETED' = TRUE
  /\ Cont("exit_pub")
  /\ UNCHANGED << armed, ident, TIMEDOUT, timer, files, job, world, env,
                  faults >>

\* Lines 292-296: the status that goes with the exit code is published.
ExitPublish ==
  /\ At("exit_pub")
  /\ UNCHANGED notAgent
  /\ UNCHANGED hist
  /\ Call_update_state(IF exit_code = 0 THEN "completed" ELSE "failed",
                       "rm_flag")
  /\ UNCHANGED << proc, exitTrap, cleanupRuns, armed, ident, flags, timer,
                  files, job, world, env, faults >>

\* Line 298: the flag file is removed.
RmFlag ==
  /\ At("rm_flag")
  /\ UNCHANGED notAgent
  /\ UNCHANGED hist
  /\ exit_code_flag' = Absent
  /\ Cont("end")
  /\ UNCHANGED << armed, ident, flags, timer, files, workload, exit_code,
                  arm, raced, world, env, faults >>

\* Line 305: `timedout` is published first ...
TimeoutArm ==
  /\ At("timeout_arm")
  /\ UNCHANGED notAgent
  /\ UNCHANGED hist
  /\ Call_update_state("timedout", "set_timedout")
  /\ UNCHANGED << proc, exitTrap, cleanupRuns, armed, ident, flags, timer,
                  files, job, world, env, faults >>

\* Line 306: ... and TIMEDOUT is set afterwards.
SetTimedout ==
  /\ At("set_timedout")
  /\ UNCHANGED notAgent
  /\ UNCHANGED hist
  /\ TIMEDOUT' = TRUE
  /\ Cont("end")
  /\ UNCHANGED << armed, ident, COMPLETED, timer, files, job, world, env,
                  faults >>

\* upload_output, lines 124-138: nothing to upload, or an s3cmd put.
UploadOutcomes == {"none", "ok", "fault"}

\* Lines 311-312: the heartbeat upload.
Heartbeat ==
  /\ At("heartbeat")
  /\ UNCHANGED notAgent
  /\ \E o \in UploadOutcomes :
       /\ MayFail(o # "fault")
       /\ IF o = "none" THEN UNCHANGED late ELSE Wrote
       /\ UNCHANGED did
       /\ IF o # "fault" THEN Cont("next_sync") ELSE Fail
  /\ UNCHANGED << armed, ident, flags, timer, files, job, world, env >>

\* Line 313: after the upload the next heartbeat is put sync_heartbeat
\* seconds after the previous one.
HeartbeatSync ==
  /\ At("next_sync")
  /\ UNCHANGED notAgent
  /\ UNCHANGED hist
  /\ next_sync' = next_sync + sync_heartbeat
  /\ Cont("sleep")
  /\ UNCHANGED << armed, ident, flags, start_time, end_time, current_time,
                  files, job, world, env, faults >>

\* Line 316.
Sleep ==
  /\ At("sleep")
  /\ UNCHANGED notAgent
  /\ UNCHANGED hist
  /\ Cont("loop")
  /\ UNCHANGED << armed, ident, flags, timer, files, job, world, env, faults >>

\* Lines 299, 307 and 317: the break out of the loop and the end of the
\* script.
EndOfScript ==
  /\ At("end")
  /\ UNCHANGED notAgent
  /\ UNCHANGED hist
  /\ Exit
  /\ UNCHANGED << armed, ident, flags, timer, files, job, world, env, faults >>

\* set -e (line 4): after a failed command, and after the handlers of the
\* signals that arrived while it ran, the shell exits.
Errexit ==
  /\ At("failed")
  /\ UNCHANGED notAgent
  /\ UNCHANGED hist
  /\ Exit
  /\ UNCHANGED << armed, ident, flags, timer, files, job, world, env, faults >>

(***************************************************************************)
(* The agent: cleanup                                                      *)
(***************************************************************************)
\* Line 149: the final upload.
CleanupUpload ==
  /\ At("c_upload")
  /\ UNCHANGED notAgent
  /\ \E o \in UploadOutcomes :
       /\ MayFail(o # "fault")
       /\ IF o = "none" THEN UNCHANGED late ELSE Wrote
       /\ UNCHANGED did
       /\ IF o # "fault" THEN Cont("c_log") ELSE Fail
  /\ UNCHANGED << armed, ident, flags, timer, files, job, world, env >>

\* Lines 151-172: the logs are dumped and the boot log is uploaded if it is
\* not empty.
CleanupLog ==
  /\ At("c_log")
  /\ UNCHANGED notAgent
  /\ \E o \in UploadOutcomes :
       /\ MayFail(o # "fault")
       /\ IF o = "none" THEN UNCHANGED late ELSE Wrote
       /\ UNCHANGED did
       /\ IF o # "fault" THEN Cont("c_id") ELSE Fail
  /\ UNCHANGED << armed, ident, flags, timer, files, job, world, env >>

\* Line 176: the instance asks the metadata service for its own id; a
\* failed request ends the shell before any DELETE is sent.
CleanupId ==
  /\ At("c_id")
  /\ UNCHANGED notAgent
  /\ UNCHANGED hist
  /\ \E ok \in BOOLEAN :
       /\ MayFail(ok)
       /\ IF ok THEN Cont("c_delete") ELSE Fail
  /\ UNCHANGED << armed, ident, flags, timer, files, job, world, env >>

\* Lines 177-180: the DELETE request for the instance's own id.  curl -s
\* exits 0 on any HTTP answer and non-zero when the request cannot be made.
DeleteOutcomes == {"accepted", "rejected", "unreachable"}

CleanupDelete ==
  /\ At("c_delete")
  /\ UNCHANGED notAgent
  /\ UNCHANGED hist
  /\ \E o \in DeleteOutcomes :
       /\ MayFail(o # "unreachable")
       /\ deleteRequests' = deleteRequests + 1
       /\ deleteAccepted' = (deleteAccepted \/ o = "accepted")
       /\ IF o # "unreachable" THEN Cont("c_return") ELSE Fail
  /\ UNCHANGED << armed, ident, flags, timer, files, job, doc, pubs, env >>

\* Line 181: curl has ended and cleanup returns.
CleanupReturn ==
  /\ At("c_return")
  /\ UNCHANGED notAgent
  /\ UNCHANGED hist
  /\ Return
  /\ UNCHANGED << armed, ident, flags, timer, files, job, world, env,
                  faults >>

(***************************************************************************)
(* The environment                                                         *)
(***************************************************************************)
\* SIGHUP, SIGINT or SIGTERM reaches the armed agent while a command runs
\* and is handled when the command has ended: cleanup runs on top of the
\* interrupted frame.
Signal ==
  /\ proc = "running"
  /\ UNCHANGED notAgent
  /\ UNCHANGED hist
  /\ armed
  /\ stack # << >>
  /\ signals < MaxSignals
  /\ signals' = signals + 1
  /\ sigMidRun' = (sigMidRun \/ (workload = "running" /\ arm = "none"))
  /\ stack' = Append(stack, cleanup("signal"))
  /\ cleanupRuns' = cleanupRuns + 1
  /\ UNCHANGED << proc, exitTrap, armed, ident, flags, timer, files, job,
                  world, now, faults >>

\* A signal before the trap of line 210 is installed finds no handler.
\* SIGHUP and SIGTERM kill the shell wherever it is; SIGINT kills it while
\* it runs builtins or a command substitution (lines 41, 63).
SignalUntrapped ==
  /\ proc = "running"
  /\ UNCHANGED notAgent
  /\ UNCHANGED hist
  /\ ~armed
  /\ stack # << >>
  /\ signals < MaxSignals
  /\ signals' = signals + 1
  /\ proc' = "ended"
  /\ stack' = << >>
  /\ UNCHANGED << exitTrap, cleanupRuns, armed, ident, flags, timer, files,
                  job, world, now, sigMidRun, faults >>

\* SIGHUP, SIGINT or SIGTERM reaches the armed agent while it executes the
\* break of line 299 or 307: bash loses a trap that is pending at a break,
\* the handler never runs and the script ends through the EXIT trap alone.
SignalDropped ==
  /\ At("end")
  /\ UNCHANGED notAgent
  /\ UNCHANGED hist
  /\ armed
  /\ signals < MaxSignals
  /\ signals' = signals + 1
  /\ UNCHANGED << ctl, armed, ident, flags, timer, files, job, world, now,
                  sigMidRun, faults >>

\* SIGINT before the trap of line 210, sent to the shell while it waits for
\* a foreground command of the bootstrap (fuser, sleep, apt-get, curl, tar:
\* lines 31-57) that then ends normally: the shell is not killed and the
\* script goes on.
SigintSurvived ==
  /\ At("bootstrap")
  /\ UNCHANGED notAgent
  /\ UNCHANGED hist
  /\ ~armed
  /\ signals < MaxSignals
  /\ signals' = signals + 1
  /\ UNCHANGED << ctl, armed, ident, flags, timer, files, job, world, now,
                  sigMidRun, faults >>

\* Time passes.
Tick ==
  /\ proc = "running"
  /\ UNCHANGED notAgent
  /\ UNCHANGED hist
  /\ now + TickStep <= MaxTime
  /\ now' = now + TickStep
  /\ UNCHANGED << ctl, armed, ident, flags, timer, files, job, world,
                  signals, sigMidRun, faults >>

\* The run command ends: its EXIT trap records the exit code.
WorkloadExit ==
  /\ proc = "running"
  /\ UNCHANGED notAgent
  /\ UNCHANGED hist
  /\ workload = "running"
  /\ \E code \in {0, 1} : exit_code_flag' = code
  /\ workload' = "exited"
  /\ UNCHANGED << ctl, armed, ident, flags, timer, files, exit_code, arm, raced,
                  world, env, faults >>

\* The provider destroys the instance after an accepted DELETE; whatever the
\* agent was doing stops.
Destroy ==
  /\ proc = "running"
  /\ UNCHANGED notAgent
  /\ UNCHANGED hist
  /\ deleteAccepted
  /\ proc' = "destroyed"
  /\ stack' = << >>
  /\ UNCHANGED << exitTrap, cleanupRuns, armed, ident, flags, timer, files,
                  job, world, env, faults >>

\* The operator has the instance deleted (DeleteDroplet) while the agent
\* runs: the provider destroys it, whatever the agent was doing.
OperatorDelete ==
  /\ proc = "running"
  /\ UNCHANGED notAgent
  /\ UNCHANGED hist
  /\ proc' = "deleted"
  /\ stack' = << >>
  /\ UNCHANGED << exitTrap, cleanupRuns, armed, ident, flags, timer, files,
                  job, world, env, faults >>

(***************************************************************************)
(* Concurrent writers of state.json                                        *)
(*                                                                         *)
(* Each agent runs update_state on its own instance for its own job id;    *)
(* the operator appends the record of a newly launched job.  Nothing       *)
(* orders one writer's fetch and write with respect to another's.          *)
(***************************************************************************)
Agents == {AgentJob, OtherJob}

Operator == 0

AppendedJob == 3

Writers == Agents \cup {Operator}

\* The statuses an agent publishes over a run that reaches the loop.
Plan(a) ==
  IF a = AgentJob THEN << "running", "completed" >>
                  ELSE << "running", "timedout" >>

PathOf(st) ==
  IF st = "running" THEN "running"
  ELSE IF st = "timedout" THEN "timeout"
  ELSE "exit"

SharedIdle ==
  /\ wpc = [w \in Writers |-> "done"]
  /\ wtodo = [a \in Agents |-> << >>]
  /\ wexisting = [w \in Writers |-> NoFile]
  /\ wmerged = [w \in Writers |-> NoFile]
  /\ wlast = [a \in Agents |-> "provisioned"]

SharedInit ==
  /\ wpc = [w \in Writers |-> "get"]
  /\ wtodo = [a \in Agents |-> Plan(a)]
  /\ wexisting = [w \in Writers |-> NoFile]
  /\ wmerged = [w \in Writers |-> NoFile]
  /\ wlast = [a \in Agents |-> "provisioned"]

\* update_state line 197, on agent a's instance.
WGet(a) ==
  /\ wpc[a] = "get"
  /\ wexisting' = [wexisting EXCEPT ![a] = File(doc)]
  /\ wpc' = [wpc EXCEPT ![a] = "jq"]
  /\ UNCHANGED << wtodo, wmerged, wlast, agentVars, notShared >>

\* update_state line 200; the exit-code arm has set COMPLETED before it
\* publishes `completed`.
WJq(a) ==
  /\ wpc[a] = "jq"
  /\ wmerged' = [wmerged EXCEPT ![a] =
                   File(jq_update(wexisting[a].content, a, Head(wtodo[a]),
                                  now, Head(wtodo[a]) = "completed",
                                  PathOf(Head(wtodo[a]))))]
  /\ wpc' = [wpc EXCEPT ![a] = "put"]
  /\ UNCHANGED << wtodo, wexisting, wlast, agentVars, notShared >>

\* update_state line 203: the whole document is replaced.
WPut(a) ==
  /\ wpc[a] = "put"
  /\ doc' = wmerged[a].content
  /\ wlast' = [wlast EXCEPT ![a] = Head(wtodo[a])]
  /\ wpc' = [wpc EXCEPT ![a] = "rm"]
  /\ UNCHANGED << wtodo, wexisting, wmerged, notShared >>
  /\ UNCHANGED << proc, stack, armed, exitTrap, ident, flags, timer, files,
                  job, pubs, deleteRequests, deleteAccepted, env, faults,
                  cleanupRuns, hist >>

\* update_state line 206, and on to the agent's next publication.
WRm(a) ==
  /\ wpc[a] = "rm"
  /\ wexisting' = [wexisting EXCEPT ![a] = NoFile]
  /\ wmerged' = [wmerged EXCEPT ![a] = NoFile]
  /\ wtodo' = [wtodo EXCEPT ![a] = Tail(@)]
  /\ wpc' = [wpc EXCEPT ![a] = IF Len(wtodo[a]) > 1 THEN "get" ELSE "done"]
  /\ UNCHANGED << wlast, agentVars, notShared >>

\* The operator fetches the document at launch ...
OpGet ==
  /\ wpc[Operator] = "get"
  /\ wexisting' = [wexisting EXCEPT ![Operator] = File(doc)]
  /\ wpc' = [wpc EXCEPT ![Operator] = "put"]
  /\ UNCHANGED << wtodo, wmerged, wlast, agentVars, notShared >>

\* ... and writes it back with the new job's record appended.
OpPut ==
  /\ wpc[Operator] = "put"
  /\ doc' = Append(wexisting[Operator].content, NewJob(AppendedJob, now))
  /\ wpc' = [wpc EXCEPT ![Operator] = "done"]
  /\ UNCHANGED << wtodo, wexisting, wmerged, wlast, notShared >>
  /\ UNCHANGED << proc, stack, armed, exitTrap, ident, flags, timer, files,
                  job, pubs, deleteRequests, deleteAccepted, env, faults,
                  cleanupRuns, hist >>

(***************************************************************************)
(* The control plane: GetAllDroplets                                       *)
(***************************************************************************)
Owners == {"alice", "bob"}

OwnerTag(o) == IF o = "alice" THEN "Owner:alice" ELSE "Owner:bob"

\* What the provider knows of a droplet's networks: none reported yet,
\* private addresses only, or a public IPv4 address.
Nets == {"nil", "private", "public"}

TagsOf(purpose, o) ==
  IF purpose THEN << OwnerTag(o), cloudexecTag, "Job:1" >>
             ELSE << OwnerTag(o) >>

DropletChoices(id) ==
  { [id |-> id, tags |-> TagsOf(p, o), net |-> n] :
      p \in BOOLEAN, o \in Owners, n \in Nets }

ProviderChoices ==
  UNION { { f \in [1..n -> UNION { DropletChoices(id) : id \in 1..n }] :
              \A i \in 1..n : f[i].id = i } : n \in 0..MaxDroplets }

HasTag(d, tag) == \E i \in DOMAIN d.tags : d.tags[i] = tag

Min(a, b) == IF a < b THEN a ELSE b

\* Droplets.ListByTag: one page of the droplets that carry the tag, with
\* the links of the response (page 0, the zero value, is page 1).
ListByTag(tag, page) ==
  LET tagged == SelectSeq(provider, LAMBDA d : HasTag(d, tag))
      pg == IF page < 1 THEN 1 ELSE page
  IN  [items |-> SubSeq(tagged, (pg - 1) * PerPage + 1,
                        Min(pg * PerPage, Len(tagged))),
       next |-> pg * PerPage < Len(tagged),
       prev |-> pg - 1]

\* resp.Links == nil || resp.Links.IsLastPage(): no next link.
IsLastPage(resp) == ~resp.next

\* resp.Links.CurrentPage(): 1 without a prev link, else that page plus 1.
CurrentPage(resp) ==
  IF resp.prev = 0 THEN (IF resp.next THEN 1 ELSE 0) ELSE resp.prev + 1

\* droplet.PublicIPv4(): an error without networks, the empty string when
\* no public address is among them.
PublicIPv4(d) ==
  [ip |-> IF d.net = "public" THEN "ip" ELSE "",
   err |-> IF d.net = "nil" THEN "no networks" ELSE ""]

\* A variant of the scan that appends the droplet at its first tag, whatever
\* the tag is.
ScanTags_anyTag(acc, d, i) ==
  IF i > Len(d.tags) THEN [droplets |-> acc, err |-> ""]
  ELSE IF PublicIPv4(d).err # ""
    THEN [droplets |-> acc, err |-> "Failed to fetch droplet IP"]
    ELSE [droplets |-> Append(acc, [ID |-> d.id, IP |-> PublicIPv4(d).ip]),
          err |-> ""]

\* Lines 267-288: the tags of one droplet are scanned from index i; the
\* droplet is appended at its first Purpose:cloudexec tag.
RECURSIVE ScanTags(_, _, _)
ScanTags(acc, d, i) ==
  IF i > Len(d.tags) THEN [droplets |-> acc, err |-> ""]
  ELSE IF d.tags[i] # cloudexecTag THEN ScanTags(acc, d, i + 1)
  ELSE IF PublicIPv4(d).err # ""
    THEN [droplets |-> acc, err |-> "Failed to fetch droplet IP"]
    ELSE [droplets |-> Append(acc, [ID |-> d.id, IP |-> PublicIPv4(d).ip]),
          err |-> ""]

\* Lines 266-289: the droplets of one page, in order, until an error.
RECURSIVE ScanPage(_, _)
ScanPage(acc, items) ==
  IF items = << >> THEN [droplets |-> acc, err |-> ""]
  ELSE LET r == ScanTags(acc, Head(items), 1)
       IN  IF r.err # "" THEN r ELSE ScanPage(r.droplets, Tail(items))

ListIdle ==
  /\ provider = << >>
  /\ owner = "alice"
  /\ gd_pc = "done"
  /\ gd_page = 0
  /\ gd_droplets = << >>
  /\ gd_err = ""
  /\ gd_calls = 0
  /\ apiFaults = 0

ListInit ==
  /\ provider \in ProviderChoices
  /\ owner = "alice"
  /\ gd_pc = "start"
  /\ gd_page = 0
  /\ gd_droplets = << >>
  /\ gd_err = ""
  /\ gd_calls = 0
  /\ apiFaults = 0

\* Lines 249-258: the call, up to the first request.
GdStart ==
  /\ gd_pc = "start"
  /\ gd_pc' = "call"
  /\ gd_page' = 0
  /\ gd_droplets' = << >>
  /\ UNCHANGED << provider, owner, gd_err, gd_calls, apiFaults >>
  /\ UNCHANGED << agentVars, notList >>

\* Lines 260-301: one turn of the loop: a page is requested and scanned,
\* and the next page is chosen unless this was the last.
GdListPage ==
  /\ gd_pc = "call"
  /\ gd_calls' = gd_calls + 1
  /\ \E ok \in BOOLEAN, pageOk \in BOOLEAN :
       /\ (~ok \/ ~pageOk) => apiFaults < MaxApiFaults
       /\ ok => (pageOk \/ ~IsLastPage(ListByTag(OwnerTag(owner), gd_page)))
       /\ ~ok => pageOk
       /\ apiFaults' = IF ok /\ pageOk THEN apiFaults ELSE apiFaults + 1
       /\ LET resp == ListByTag(OwnerTag(owner), gd_page)
              r == ScanPage(gd_droplets, resp.items)
          IN  IF ~ok
                THEN /\ gd_err' = "Failed to fetch droplets by name"
                     /\ gd_pc' = "done"
                     /\ UNCHANGED << gd_droplets, gd_page >>
              ELSE IF r.err # ""
                THEN /\ gd_err' = r.err
                     /\ gd_droplets' = r.droplets
                     /\ gd_pc' = "done"
                     /\ UNCHANGED gd_page
              ELSE IF IsLastPage(resp)
                THEN /\ gd_droplets' = r.droplets
                     /\ gd_pc' = "done"
                     /\ UNCHANGED << gd_err, gd_page >>
              ELSE IF ~pageOk
                THEN /\ gd_err' = "Failed to fetch page of droplets list"
                     /\ gd_droplets' = r.droplets
                     /\ gd_pc' = "done"
                     /\ UNCHANGED gd_page
              ELSE /\ gd_droplets' = r.droplets
                   /\ gd_page' = CurrentPage(resp) + 1
                   /\ UNCHANGED << gd_pc, gd_err >>
  /\ UNCHANGED << provider, owner >>
  /\ UNCHANGED << agentVars, notList >>

(***************************************************************************)
(* The control plane: GetLatestSnapshot                                    *)
(***************************************************************************)
\* strings.HasPrefix
HasPrefix(str, prefix) ==
  Len(str) >= Len(prefix) /\ SubSeq(str, 1, Len(prefix)) = prefix

\* time.Parse(timeLayout, s): the instant, in months since the start of
\* 2023, or an error for a text that is not RFC 3339.
timeLayout ==
  [s \in {"2023-01-01T00:00:00Z", "2023-06-01T00:00:00Z",
          "2024-02-01T00:00:00Z", "yesterday"} |->
     CASE s = "2023-01-01T00:00:00Z" -> [t |-> 1, err |-> FALSE]
       [] s = "2023-06-01T00:00:00Z" -> [t |-> 6, err |-> FALSE]
       [] s = "2024-02-01T00:00:00Z" -> [t |-> 14, err |-> FALSE]
       [] OTHER -> [t |-> 0, err |-> TRUE]]

Parse(s) == timeLayout[s]

SnapNames == {"cloudexec-a", "cloudexec", "backup"}

SnapTimes == {"2023-01-01T00:00:00Z", "2023-06-01T00:00:00Z", "yesterday"}

SnapId(i) == CASE i = 1 -> "s1" [] i = 2 -> "s2" [] i = 3 -> "s3"
               [] i = 4 -> "s4" [] OTHER -> "s5"

SnapChoices ==
  UNION { { f \in [1..n -> [ID : {SnapId(i) : i \in 1..n}, Name : SnapNames,
                            Created : SnapTimes]] :
              \A i \in 1..n : f[i].ID = SnapId(i) } : n \in 0..MaxSnaps }

\* Snapshots.ListDroplet: one page of the snapshots and the links of the
\* response.
ListDroplet(page) ==
  [items |-> SubSeq(snaps, (page - 1) * SnapPerPage + 1,
                    Min(page * SnapPerPage, Len(snaps))),
   next |-> page * SnapPerPage < Len(snaps),
   prev |-> page - 1]

\* `var latestSnapshot *godo.Snapshot; var latestCreatedAt time.Time`:
\* a nil pointer and the zero time.  cell is what the pointer refers to;
\* live says that it refers to the variable of the loop now running.
NilLatest ==
  [nil |-> TRUE, cell |-> [ID |-> "", Name |-> "", Created |-> ""],
   at |-> 0, live |-> FALSE]

\* Line 348: the test that makes a snapshot the latest so far.
Takes(st, snapshot) ==
  /\ st.nil \/ Parse(snapshot.Created).t > st.at
  /\ HasPrefix(snapshot.Name, "cloudexec-")

\* Lines 343-352: the snapshots of one page, in order, until a timestamp
\* that does not parse.  `latestSnapshot = &snapshot` takes the address of
\* the loop's variable: where the build keeps one variable for the whole
\* loop, every later iteration overwrites what the pointer refers to.
RECURSIVE ScanSnapshots(_, _)
ScanSnapshots(st, items) ==
  IF items = << >> THEN [st |-> st, err |-> ""]
  ELSE LET snapshot == Head(items)
           seen == IF st.live /\ ~loopvar
                     THEN [st EXCEPT !.cell = snapshot] ELSE st
       IN  IF Parse(snapshot.Created).err
             THEN [st |-> seen,
                   err |-> "Failed to parse snapshot creation timestamp"]
           ELSE IF Takes(seen, snapshot)
             THEN ScanSnapshots([nil |-> FALSE, cell |-> snapshot,
                                 at |-> Parse(snapshot.Created).t,
                                 live |-> TRUE], Tail(items))
           ELSE ScanSnapshots(seen, Tail(items))

empty == [ID |-> "", Name |-> ""]

fallback == [ID |-> "ubuntu-20-04-x64", Name |-> "fallback"]

SnapIdle ==
  /\ snaps = << >>
  /\ loopvar = TRUE
  /\ gs_pc = "idle"
  /\ gs_page = 1
  /\ gs_latest = NilLatest
  /\ gs_result = empty
  /\ gs_err = ""
  /\ snapFaults = 0

SnapInit ==
  /\ snaps \in SnapChoices
  /\ loopvar \in BOOLEAN
  /\ gs_pc = "start"
  /\ gs_page = 1
  /\ gs_latest = NilLatest
  /\ gs_result = empty
  /\ gs_err = ""
  /\ snapFaults = 0

\* Lines 319-337: the call, up to the first request.
GsStart ==
  /\ gs_pc = "start"
  /\ gs_pc' = "call"
  /\ gs_page' = 1
  /\ gs_latest' = NilLatest
  /\ gs_result' = empty
  /\ gs_err' = ""
  /\ UNCHANGED << snaps, loopvar, snapFaults >>
  /\ UNCHANGED notSnap

\* Lines 338-372: one turn of the loop: a page is requested and scanned;
\* after the last page the latest snapshot, or the fallback, is returned.
GsListPage ==
  /\ gs_pc = "call"
  /\ \E ok \in BOOLEAN :
       /\ ~ok => snapFaults < MaxApiFaults
       /\ snapFaults' = IF ok THEN snapFaults ELSE snapFaults + 1
       /\ LET resp == ListDroplet(gs_page)
              r == ScanSnapshots([gs_latest EXCEPT !.live = FALSE],
                                 resp.items)
          IN  IF ~ok
                THEN /\ gs_err' = "Failed to list snapshots"
                     /\ gs_result' = empty
                     /\ gs_pc' = "done"
                     /\ UNCHANGED << gs_latest, gs_page >>
              ELSE IF r.err # ""
                THEN /\ gs_err' = r.err
                     /\ gs_result' = empty
                     /\ gs_latest' = r.st
                     /\ gs_pc' = "done"
                     /\ UNCHANGED gs_page
              ELSE IF IsLastPage(resp)
                THEN /\ gs_latest' = r.st
                     /\ gs_result' = IF r.st.nil THEN fallback
                                     ELSE [ID |-> r.st.cell.ID,
                                           Name |-> r.st.cell.Name]
                     /\ gs_pc' = "done"
                     /\ UNCHANGED << gs_err, gs_page >>
              ELSE /\ gs_latest' = r.st
                   /\ gs_page' = gs_page + 1
                   /\ UNCHANGED << gs_pc, gs_result, gs_err >>
  /\ UNCHANGED << snaps, loopvar >>
  /\ UNCHANGED notSnap

(***************************************************************************)
(* The control plane: CreateDroplet                                        *)
(***************************************************************************)
\* Line 132: keyName for config.Username.
keyName == IF owner = "alice" THEN "cloudexec-alice" ELSE "cloudexec-bob"

KeyNames == {"cloudexec-alice", "laptop"}

\* Public-key materials; the caller holds the first two.
Materials == 1..(MaxKeys + 1)

CallerMaterials == {1, 2}

\* The fingerprint the provider derives from a public key.
Fingerprint(material) == << "fp", material >>

\* The provider keeps public keys unique on an account and lets names
\* repeat.  An account starts with at most one key of the operator's name.
KeyChoices ==
  UNION { { f \in [1..n -> [Name : KeyNames, PublicKey : Materials]] :
              /\ \A i, j \in 1..n : f[i].PublicKey = f[j].PublicKey => i = j
              /\ \A i, j \in 1..n :
                   (f[i].Name = keyName /\ f[j].Name = keyName) => i = j }
          : n \in 0..MaxKeys }

\* Keys.List with Page 1: the first page of the account's keys.
KeysList == SubSeq(keys, 1, Min(KeyPerPage, Len(keys)))

\* Lines 89-94: the first key of the page that carries the name.
RECURSIVE findSSHKeyOnDigitalOcean(_, _)
findSSHKeyOnDigitalOcean(page, name) ==
  IF page = << >>
    THEN [Fingerprint |-> << >>, PublicKey |-> 0, err |-> "not found"]
  ELSE IF Head(page).Name = name
    THEN [Fingerprint |-> Fingerprint(Head(page).PublicKey),
          PublicKey |-> Head(page).PublicKey, err |-> ""]
  ELSE findSSHKeyOnDigitalOcean(Tail(page), name)

\* `var droplet Droplet`
NoDroplet == [ID |-> 0, IP |-> ""]

ByIdIdle ==
  /\ deleted = {}
  /\ dd_err = ""
  /\ gb_result = NoDroplet
  /\ gb_err = ""
  /\ byIdCalls = 0

CreateIdle ==
  /\ ByIdIdle
  /\ keys = << >>
  /\ created = << >>
  /\ cd_pc = "idle"
  /\ cd_publicKey = 0
  /\ cd_fp = << >>
  /\ cd_action = FALSE
  /\ cd_newDroplet = [ID |-> 0, net |-> "nil"]
  /\ cd_result = NoDroplet
  /\ cd_err = ""
  /\ cd_calls = 0
  /\ createFaults = 0
  /\ cd_reqs = << >>
  /\ cd_failedAt = 0
  /\ cd_keys0 = << >>
  /\ cd_prev = << >>

CreateInit ==
  /\ ByIdIdle
  /\ keys \in KeyChoices
  /\ created = << >>
  /\ cd_pc = "start"
  /\ cd_publicKey = 0
  /\ cd_fp = << >>
  /\ cd_action = FALSE
  /\ cd_newDroplet = [ID |-> 0, net |-> "nil"]
  /\ cd_result = NoDroplet
  /\ cd_err = ""
  /\ cd_calls = 0
  /\ createFaults = 0
  /\ cd_reqs = << >>
  /\ cd_failedAt = 0
  /\ cd_keys0 = keys
  /\ cd_prev = << >>

\* A provider request of CreateDroplet succeeds or fails; refused says
\* that the provider has to refuse it, which is no fault of the transport.
Request(name, ok, refused) ==
  /\ refused => ~ok
  /\ (~ok /\ ~refused) => createFaults < MaxApiFaults
  /\ createFaults' = IF ok \/ refused THEN createFaults ELSE createFaults + 1
  /\ cd_reqs' = Append(cd_reqs, name)
  /\ cd_failedAt' = IF ~ok /\ cd_failedAt = 0 THEN Len(cd_reqs) + 1
                    ELSE cd_failedAt

\* `return droplet, err`
ReturnDroplet(d, err) ==
  /\ cd_pc' = "done"
  /\ cd_result' = d
  /\ cd_err' = err

\* Lines 124-130: a call of CreateDroplet with some public key.
CdStart ==
  /\ cd_pc \in {"start", "done"}
  /\ cd_calls < MaxCalls
  /\ cd_calls' = cd_calls + 1
  /\ \E k \in CallerMaterials : cd_publicKey' = k
  /\ cd_pc' = "find"
  /\ cd_fp' = << >>
  /\ cd_result' = NoDroplet
  /\ cd_err' = ""
  /\ cd_reqs' = << >>
  /\ cd_failedAt' = 0
  /\ cd_keys0' = keys
  /\ cd_prev' = IF cd_pc = "done"
                  THEN << [publicKey |-> cd_publicKey, fp |-> cd_fp,
                           err |-> cd_err] >>
                  ELSE << >>
  /\ UNCHANGED << keys, created, cd_action, cd_newDroplet, createFaults >>
  /\ UNCHANGED << notCreate, snapVars >>

\* Lines 132-140 and 80-95: the key of the operator's name is looked up in
\* the first page of the listing; a key found with other material ends the
\* call, and any error of the lookup leads to the registration.
CdFindKey ==
  /\ cd_pc = "find"
  /\ \E ok \in BOOLEAN :
       /\ Request("keys.list", ok, FALSE)
       /\ LET r == IF ok THEN findSSHKeyOnDigitalOcean(KeysList, keyName)
                   ELSE [Fingerprint |-> << >>, PublicKey |-> 0,
                         err |-> "Failed to list DigitalOcean SSH keys"]
          IN  IF r.err = ""
                THEN IF cd_publicKey # r.PublicKey
                       THEN /\ ReturnDroplet(NoDroplet, "Keys do not match!")
                            /\ cd_fp' = r.Fingerprint
                       ELSE /\ cd_fp' = r.Fingerprint
                            /\ cd_pc' = "snapshot"
                            /\ UNCHANGED << cd_result, cd_err >>
                ELSE /\ cd_fp' = r.Fingerprint
                     /\ cd_pc' = "createkey"
                     /\ UNCHANGED << cd_result, cd_err >>
  /\ UNCHANGED << keys, created, cd_publicKey, cd_action, cd_newDroplet,
                  cd_calls, cd_keys0, cd_prev >>
  /\ UNCHANGED << notCreate, snapVars >>

\* Lines 141-149 and 67-77: the key is registered under the operator's
\* name; the provider refuses material it already holds.
CdCreateKey ==
  /\ cd_pc = "createkey"
  /\ \E ok \in BOOLEAN :
       /\ Request("keys.create", ok,
                  \E i \in DOMAIN keys : keys[i].PublicKey = cd_publicKey)
       /\ IF ok
            THEN /\ keys' = Append(keys, [Name |-> keyName,
                                          PublicKey |-> cd_publicKey])
                 /\ cd_fp' = Fingerprint(cd_publicKey)
                 /\ cd_pc' = "snapshot"
                 /\ UNCHANGED << cd_result, cd_err >>
            ELSE /\ ReturnDroplet(NoDroplet,
                                  "Failed to create SSH key on DigitalOcean")
                 /\ cd_fp' = << >>
                 /\ UNCHANGED keys
  /\ UNCHANGED << created, cd_publicKey, cd_action, cd_newDroplet, cd_calls,
                  cd_keys0, cd_prev >>
  /\ UNCHANGED << notCreate, snapVars >>

\* Line 152: GetLatestSnapshot is called.
CdSnapshot ==
  /\ cd_pc = "snapshot"
  /\ cd_pc' = "snapwait"
  /\ gs_pc' = "start"
  /\ UNCHANGED << snaps, loopvar, gs_page, gs_latest, gs_result, gs_err,
                  snapFaults >>
  /\ UNCHANGED << keys, created, cd_publicKey, cd_fp, cd_action,
                  cd_newDroplet, cd_result, cd_err, cd_calls, createFaults,
                  cd_reqs, cd_failedAt, cd_keys0, cd_prev >>
  /\ UNCHANGED notCreate

\* Lines 152-155: GetLatestSnapshot has returned.
CdSnapshotReturned ==
  /\ cd_pc = "snapwait"
  /\ gs_pc = "done"
  /\ gs_pc' = "idle"
  /\ IF gs_err # ""
       THEN /\ ReturnDroplet(NoDroplet, "Failed to get snapshot ID")
            /\ cd_reqs' = Append(cd_reqs, "snapshots.list")
            /\ cd_failedAt' = IF cd_failedAt = 0 THEN Len(cd_reqs) + 1
                              ELSE cd_failedAt
       ELSE /\ cd_pc' = "create"
            /\ cd_reqs' = Append(cd_reqs, "snapshots.list")
            /\ UNCHANGED << cd_result, cd_err, cd_failedAt >>
  /\ UNCHANGED << snaps, loopvar, gs_page, gs_latest, gs_result, gs_err,
                  snapFaults >>
  /\ UNCHANGED << keys, created, cd_publicKey, cd_fp, cd_action,
                  cd_newDroplet, cd_calls, createFaults, cd_keys0, cd_prev >>
  /\ UNCHANGED notCreate

\* Lines 158-190: the droplet is requested with the image, the key and
\* the three tags; the response may carry the link of the create action.
CdCreate ==
  /\ cd_pc = "create"
  /\ \E ok \in BOOLEAN, link \in BOOLEAN, net \in {"nil", "private"} :
       /\ Request("droplets.create", ok, FALSE)
       /\ IF ok
            THEN /\ created' =
                      Append(created,
                             [id |-> Len(created) + 1,
                              image |-> gs_result.ID,
                              key |-> cd_fp,
                              tags |-> << cloudexecTag, OwnerTag(owner),
                                          "Job:1" >>,
                              action |-> "in-progress"])
                 /\ cd_newDroplet' = [ID |-> Len(created) + 1, net |-> net]
                 /\ cd_action' = link
                 /\ cd_pc' = IF link THEN "wait" ELSE "finish"
                 /\ UNCHANGED << cd_result, cd_err >>
            ELSE /\ ReturnDroplet(NoDroplet, "Failed to create droplet")
                 /\ link /\ net = "nil"
                 /\ UNCHANGED << created, cd_newDroplet, cd_action >>
  /\ UNCHANGED << keys, cd_publicKey, cd_fp, cd_calls, cd_keys0, cd_prev >>
  /\ UNCHANGED << notCreate, snapVars >>

\* Line 193: util.WaitForActive ends when the action is completed, or with
\* an error when the action has errored or cannot be read; the error is
\* dropped.
CdWait ==
  /\ cd_pc = "wait"
  /\ \E outcome \in {"completed", "errored"} :
       created' = [created EXCEPT ![Len(created)].action = outcome]
  /\ cd_reqs' = Append(cd_reqs, "actions.get")
  /\ cd_pc' = "get"
  /\ UNCHANGED << keys, cd_publicKey, cd_fp, cd_action, cd_newDroplet,
                  cd_result, cd_err, cd_calls, createFaults, cd_failedAt,
                  cd_keys0, cd_prev >>
  /\ UNCHANGED << notCreate, snapVars >>

\* Lines 194-199: the droplet is fetched again.
CdGet ==
  /\ cd_pc = "get"
  /\ \E ok \in BOOLEAN, net \in Nets :
       /\ Request("droplets.get", ok, FALSE)
       /\ IF ok
            THEN /\ cd_newDroplet' = [cd_newDroplet EXCEPT !.net = net]
                 /\ cd_pc' = "finish"
                 /\ UNCHANGED << cd_result, cd_err >>
            ELSE /\ ReturnDroplet(NoDroplet, "Failed to get droplet by id")
                 /\ net = "nil"
                 /\ UNCHANGED cd_newDroplet
  /\ UNCHANGED << keys, created, cd_publicKey, cd_fp, cd_action, cd_calls,
                  cd_keys0, cd_prev >>
  /\ UNCHANGED << notCreate, snapVars >>

\* Lines 202-215: the Droplet is filled in and returned.
CdFinish ==
  /\ cd_pc = "finish"
  /\ LET r == PublicIPv4(cd_newDroplet)
     IN  ReturnDroplet([ID |-> cd_newDroplet.ID, IP |-> r.ip],
                       IF r.err # "" THEN "Failed to get droplet IP" ELSE "")
  /\ UNCHANGED << keys, created, cd_publicKey, cd_fp, cd_action,
                  cd_newDroplet, cd_calls, createFaults, cd_reqs,
                  cd_failedAt, cd_keys0, cd_prev >>
  /\ UNCHANGED << notCreate, snapVars >>

\* The ids a caller may pass: those of the droplets created so far and one
\* the account does not hold.
DropletIds == 1..(MaxCalls + 1)

\* The account holds a droplet of this id.
Held(id) == id \in DOMAIN created /\ id \notin deleted

\* A provider request about one droplet: the provider refuses it when the
\* account holds no such droplet, and the transport may fail.
ByIdRequest(id, ok) ==
  /\ ~Held(id) => ~ok
  /\ (~ok /\ Held(id)) => createFaults < MaxApiFaults
  /\ createFaults' = IF ~ok /\ Held(id) THEN createFaults + 1
                     ELSE createFaults

\* Lines 306-317: the droplet of the given id is deleted, between two
\* calls of CreateDroplet.
DeleteDroplet ==
  /\ cd_pc \in {"start", "done"}
  /\ byIdCalls < MaxByIdCalls
  /\ byIdCalls' = byIdCalls + 1
  /\ \E dropletID \in DropletIds, ok \in BOOLEAN :
       /\ ByIdRequest(dropletID, ok)
       /\ deleted' = IF ok THEN deleted \cup {dropletID} ELSE deleted
       /\ dd_err' = IF ok THEN "" ELSE "Failed to delete droplet"
  /\ UNCHANGED << gb_result, gb_err >>
  /\ UNCHANGED << keys, created, cd_pc, cd_publicKey, cd_fp, cd_action,
                  cd_newDroplet, cd_result, cd_err, cd_calls, cd_reqs,
                  cd_failedAt, cd_keys0, cd_prev >>
  /\ UNCHANGED << agentVars, sharedVars, listVars, snapVars >>

\* Lines 218-246: the droplet of the given id is fetched and returned with
\* its public address.
GetDropletById ==
  /\ cd_pc \in {"start", "done"}
  /\ byIdCalls < MaxByIdCalls
  /\ byIdCalls' = byIdCalls + 1
  /\ \E id \in DropletIds, ok \in BOOLEAN, net \in Nets :
       /\ ByIdRequest(id, ok)
       /\ LET r == PublicIPv4([ID |-> id, net |-> net])
          IN  IF ~ok
                THEN /\ net = "nil"
                     /\ gb_result' = NoDroplet
                     /\ gb_err' = "Failed to get droplet by id"
              ELSE IF r.err # ""
                THEN /\ gb_result' = NoDroplet
                     /\ gb_err' = "Failed to fetch droplet IP"
              ELSE /\ gb_result' = [ID |-> id, IP |-> r.ip]
                   /\ gb_err' = ""
  /\ UNCHANGED << deleted, dd_err >>
  /\ UNCHANGED << keys, created, cd_pc, cd_publicKey, cd_fp, cd_action,
                  cd_newDroplet, cd_result, cd_err, cd_calls, cd_reqs,
                  cd_failedAt, cd_keys0, cd_prev >>
  /\ UNCHANGED << agentVars, sharedVars, listVars, snapVars >>

(***************************************************************************)
(* Specifications                                                          *)
(***************************************************************************)
Init == AgentInit /\ SharedIdle /\ ListIdle /\ SnapIdle /\ CreateIdle

Next ==
  \/ Bootstrap \/ ReadTags \/ CheckEnv \/ ArmTrap
  \/ RunSetup \/ DownloadInput \/ Unzip \/ PublishRunning
  \/ UsDate \/ UsGet \/ UsJq \/ UsPut \/ UsRm
  \/ StartWorkload \/ StartTimer \/ TimerSync \/ TimerEnd
  \/ LoopDate \/ Poll
  \/ ExitArm \/ ExitPublish \/ RmFlag \/ TimeoutArm \/ SetTimedout
  \/ Heartbeat \/ HeartbeatSync \/ Sleep
  \/ EndOfScript \/ Errexit
  \/ CleanupUpload \/ CleanupLog \/ CleanupId \/ CleanupDelete
  \/ CleanupReturn
  \/ Signal \/ SignalDropped \/ SignalUntrapped \/ SigintSurvived
  \/ Tick \/ WorkloadExit \/ Destroy \/ OperatorDelete

Spec == Init /\ [][Next]_vars

\* Two agents and the operator writing state.json concurrently.
InitShared ==
  /\ AgentIdle
  /\ doc = << NewJob(AgentJob, 0), NewJob(OtherJob, 0) >>
  /\ SharedInit
  /\ ListIdle
  /\ SnapIdle
  /\ CreateIdle

NextShared ==
  \/ \E a \in Agents : WGet(a)
  \/ \E a \in Agents : WJq(a)
  \/ \E a \in Agents : WPut(a)
  \/ \E a \in Agents : WRm(a)
  \/ OpGet
  \/ OpPut

SpecShared == InitShared /\ [][NextShared]_vars

\* One call of GetAllDroplets against an account.
InitList ==
  /\ AgentIdle
  /\ doc = << >>
  /\ SharedIdle
  /\ ListInit
  /\ SnapIdle
  /\ CreateIdle

NextList == GdStart \/ GdListPage

SpecList == InitList /\ [][NextList]_vars

\* One call of GetLatestSnapshot against an account.
InitSnap ==
  /\ AgentIdle
  /\ doc = << >>
  /\ SharedIdle
  /\ ListIdle
  /\ SnapInit
  /\ CreateIdle

NextSnap == GsStart \/ GsListPage

SpecSnap == InitSnap /\ [][NextSnap]_vars

\* Calls of CreateDroplet by one operator against an account.
InitCreate ==
  /\ AgentIdle
  /\ doc = << >>
  /\ SharedIdle
  /\ ListIdle
  /\ snaps \in {<< >>,
                << [ID |-> "s1", Name |-> "cloudexec-a",
                    Created |-> "2023-01-01T00:00:00Z"] >>}
  /\ loopvar \in BOOLEAN
  /\ gs_pc = "idle"
  /\ gs_page = 1
  /\ gs_latest = NilLatest
  /\ gs_result = empty
  /\ gs_err = ""
  /\ snapFaults = 0
  /\ CreateInit

NextCreate ==
  \/ CdStart \/ CdFindKey \/ CdCreateKey
  \/ CdSnapshot \/ GsStart \/ GsListPage \/ CdSnapshotReturned
  \/ CdCreate \/ CdWait \/ CdGet \/ CdFinish
  \/ DeleteDroplet \/ GetDropletById

SpecCreate == InitCreate /\ [][NextCreate]_vars

TypeOK ==
  /\ proc \in {"running", "ended", "destroyed", "deleted"}
  /\ cleanupRuns \in 0..(MaxSignals + 1)
  /\ Len(stack) <= MaxSignals + 1

(***************************************************************************)
(* Properties of the agent                                                 *)
(***************************************************************************)
Over == proc \in {"ended", "destroyed"}

MyRecord == JobRecord(doc, AgentJob)

TerminalPubs == SelectSeq(pubs, LAMBDA st : st \in Terminal)

\* C1: every run of the cleanup handler issues the self-delete request,
\* whatever happens to the steps before it: when the agent process has
\* ended and cleanup was started, a DELETE request has been issued.
C1_CleanupAlwaysDeletes ==
  (proc = "ended" /\ cleanupRuns > 0) => deleteRequests > 0

\* C2: once the handler is installed cleanup runs exactly once: never twice,
\* and once when the agent process has ended.
C2_CleanupExactlyOnce ==
  armed => /\ cleanupRuns <= 1
           /\ proc = "ended" => cleanupRuns = 1

\* C3: a job record has completed_at set if and only if the status it holds
\* was published by the exit-code arm; a status set by the timeout arm or
\* by cleanup never comes with completed_at.
C3_CompletedAtIffExitArm ==
  \A i \in DOMAIN doc : (doc[i].completed_at # Absent) <=> (doc[i].by = "exit")

\* C3 witness: the exit-code arm has published, cleanup has run after it and
\* the agent has ended with completed_at set on its record.
C3_Witness ==
  /\ proc = "ended"
  /\ cleanupRuns > 0
  /\ HasJob(doc, AgentJob)
  /\ MyRecord.by = "exit"
  /\ MyRecord.completed_at # Absent

\* C4: if the exit code is recorded before the timeout elapses, the record
\* ends with `completed` (code 0) or `failed` (otherwise), completed_at set,
\* and the self-delete request issued.
C4_ExitCodeScenario ==
  (Over /\ arm = "exit" /\ now <= end_time /\ HasJob(doc, AgentJob)) =>
     /\ MyRecord.status = (IF exit_code = 0 THEN "completed" ELSE "failed")
     /\ MyRecord.completed_at # Absent
     /\ deleteRequests > 0

\* C5: if the run command is still executing when the timeout elapses, the
\* record ends with `timedout`, without completed_at, and the self-delete
\* request is issued.
C5_TimeoutScenario ==
  (Over /\ arm = "timeout" /\ HasJob(doc, AgentJob)) =>
     /\ MyRecord.status = "timedout"
     /\ MyRecord.completed_at = Absent
     /\ deleteRequests > 0

\* C6: if a termination signal arrives while the workload runs and before
\* either arm has fired, the record ends with `failed`, without
\* completed_at, and the self-delete request is issued.
C6_SignalScenario ==
  (Over /\ sigMidRun /\ HasJob(doc, AgentJob)) =>
     /\ MyRecord.status = "failed"
     /\ MyRecord.completed_at = Absent
     /\ deleteRequests > 0

\* C7: the agent performs at most one terminal status publication for its
\* job over the whole run.
C7_OneTerminalPublication == Len(TerminalPubs) <= 1

\* C8: when an agent that installed its cleanup handler has ended, its
\* job's record holds `completed`, `failed` or `timedout`.
C8_EndsTerminal ==
  (armed /\ Over /\ HasJob(doc, AgentJob)) => MyRecord.status \in Terminal

(***************************************************************************)
(* Properties of the shared document under concurrent writers              *)
(***************************************************************************)
AllWritten == \A w \in Writers : wpc[w] = "done"

\* C9: when writers that each own one job id interleave their
\* fetch/modify/write sequences, no change is lost: once all have finished,
\* every job's record holds the last status its agent published and the
\* appended record is present.
C9_NoLostUpdate ==
  AllWritten =>
    /\ \A a \in Agents :
         HasJob(doc, a) /\ JobRecord(doc, a).status = wlast[a]
    /\ HasJob(doc, AppendedJob)

(***************************************************************************)
(* Properties of GetAllDroplets                                            *)
(***************************************************************************)
ProviderDroplet(id) == provider[CHOOSE i \in DOMAIN provider : provider[i].id = id]

\* C10: GetAllDroplets returns only instances that carry both the owner's
\* tag and the Purpose:cloudexec tag, over all pages, each at most once.
C10_ListOnlyOwnedCloudexec ==
  gd_pc = "done" =>
    /\ \A i \in DOMAIN gd_droplets :
         /\ \E j \in DOMAIN provider : provider[j].id = gd_droplets[i].ID
         /\ HasTag(ProviderDroplet(gd_droplets[i].ID), OwnerTag(owner))
         /\ HasTag(ProviderDroplet(gd_droplets[i].ID), cloudexecTag)
    /\ \A i, j \in DOMAIN gd_droplets :
         gd_droplets[i].ID = gd_droplets[j].ID => i = j

\* C10 witness: a listing of more than one page that returned an instance
\* and left out one that has the owner's tag but not the purpose tag.
C10_Witness ==
  /\ gd_pc = "done"
  /\ gd_err = ""
  /\ gd_calls > 1
  /\ gd_droplets # << >>
  /\ \E j \in DOMAIN provider :
       /\ HasTag(provider[j], OwnerTag(owner))
       /\ ~HasTag(provider[j], cloudexecTag)

Matched(d) == HasTag(d, OwnerTag(owner)) /\ HasTag(d, cloudexecTag)

\* C11: if an instance matched by GetAllDroplets has no resolvable public
\* address, the call returns an error and the list handed back with it is
\* empty.
C11_NoPartialResults ==
  (/\ gd_pc = "done"
   /\ apiFaults = 0
   /\ \E j \in DOMAIN provider :
        Matched(provider[j]) /\ provider[j].net # "public") =>
     /\ gd_err # ""
     /\ gd_droplets = << >>

Qualifying == { i \in DOMAIN snaps : HasPrefix(snaps[i].Name, "cloudexec-") }

\* C12: when every timestamp parses, GetLatestSnapshot returns a snapshot
\* named cloudexec-... whose creation time is the latest among the
\* snapshots so named, and returns the fallback image exactly when no
\* snapshot is so named.
C12_LatestQualifying ==
  (/\ gs_pc = "done"
   /\ snapFaults = 0
   /\ \A i \in DOMAIN snaps : ~Parse(snaps[i].Created).err) =>
     /\ gs_err = ""
     /\ (gs_result.ID = "ubuntu-20-04-x64") <=> (Qualifying = {})
     /\ Qualifying # {} =>
          \E i \in Qualifying :
            /\ gs_result = [ID |-> snaps[i].ID, Name |-> snaps[i].Name]
            /\ \A j \in Qualifying :
                 Parse(snaps[j].Created).t <= Parse(snaps[i].Created).t

Requested(name) == \E i \in DOMAIN cd_reqs : cd_reqs[i] = name

\* C13: a call of CreateDroplet that follows one which settled the key for
\* the same public key uses the same fingerprint and sends no request to
\* register a key.
C13_KeyIdempotent ==
  (/\ cd_pc = "done"
   /\ cd_prev # << >>
   /\ cd_prev[1].publicKey = cd_publicKey
   /\ cd_prev[1].fp = Fingerprint(cd_publicKey)) =>
     /\ cd_fp = cd_prev[1].fp
     /\ ~Requested("keys.create")

StaleKey ==
  \E i \in DOMAIN cd_keys0 :
    cd_keys0[i].Name = keyName /\ cd_keys0[i].PublicKey # cd_publicKey

\* C14: when the account holds a key of the operator's name with other
\* material than the caller's, CreateDroplet returns an error, the
\* account's keys are what they were, and no droplet is requested.
C14_MismatchIsFatal ==
  (cd_pc = "done" /\ StaleKey) =>
     /\ cd_err # ""
     /\ keys = cd_keys0
     /\ ~Requested("droplets.create")

\* C15: the account never holds two keys of the operator's name.
C15_OneKeyPerName ==
  Cardinality({ i \in DOMAIN keys : keys[i].Name = keyName }) <= 1

\* C16: when the wait for the create action ends with an error,
\* CreateDroplet returns an error and does not fetch the droplet again.
C16_ActiveBeforeReturn ==
  (/\ cd_pc = "done"
   /\ Requested("actions.get")
   /\ created[Len(created)].action = "errored") =>
     /\ cd_err # ""
     /\ ~Requested("droplets.get")

\* C17: when a provider request of CreateDroplet fails, the call returns
\* an error and the failed request is the last one it sent.
C17_FailureSurfaces ==
  (cd_pc = "done" /\ cd_failedAt # 0) =>
     /\ cd_err # ""
     /\ Len(cd_reqs) = cd_failedAt

\* C18: an agent whose tags lack Purpose:cloudexec, or a job id, runs no
\* setup command, downloads no input, publishes no status, starts no
\* workload and sends no DELETE request.
C18_NoWorkWithoutTags ==
  (~CLOUDEXEC \/ JOB_ID = 0) =>
     /\ did = {}
     /\ workload = "none"
     /\ deleteRequests = 0

\* C19: no setup command, download, publication or workload start happens
\* before the trap is installed, and the workload is started only after
\* `running` was written to the state document.
C19_TrapBeforeWork ==
  /\ did # {} => armed
  /\ "tmux" \in did => "running" \in did

\* C19 witness: the workload runs under the trap, after setup, download and
\* the publication of `running`.
C19_Witness ==
  /\ workload = "running"
  /\ armed
  /\ {"setup", "download", "running", "tmux"} \subseteq did

InUpdateState(f) ==
  f.pc \in {"us_date", "us_get", "us_jq", "us_put", "us_rm"}

\* The order inside one run of cleanup: a run publishes only `failed`,
\* only with neither flag set, and ahead of its upload.
CleanupOrder ==
  \A i \in DOMAIN stack :
    (stack[i].k # "main" /\ InUpdateState(stack[i])) =>
       /\ stack[i].new_status = "failed"
       /\ stack[i].ret = "c_upload"
       /\ ~COMPLETED /\ ~TIMEDOUT

\* C20: a run of cleanup keeps its order, and once a DELETE request was
\* sent the agent neither writes the state document nor uploads again.
C20_DeleteIsLast == CleanupOrder /\ ~late

\* What a status update of job J may make of document d: the same records
\* in the same order, all but J's untouched, J's id and created_at kept.
UpdateFrame(d, e, J) ==
  /\ Len(e) = Len(d)
  /\ \A i \in DOMAIN d :
       IF d[i].id = J
         THEN e[i].id = d[i].id /\ e[i].created_at = d[i].created_at
         ELSE e[i] = d[i]

\* C21: the write of a status update by the agent of job J changes only
\* J's record in state.json, and in it only status, updated_at and
\* completed_at; no record is added, removed, moved or otherwise changed.
C21_UpdateFrame ==
  [][\A a \in Agents :
       (wpc[a] = "put" /\ wpc'[a] = "rm") => UpdateFrame(doc, doc', a)]_vars

\* C22: a run that ends before the trap is installed has written nothing
\* to state.json and has sent no DELETE request: the job's record, if
\* there is one, is still at its initial status.
C22_NoEffectBeforeTrap ==
  (proc = "ended" /\ ~armed) =>
     /\ did = {}
     /\ pubs = << >>
     /\ deleteRequests = 0
     /\ HasJob(doc, AgentJob) =>
          JobRecord(doc, AgentJob) = NewJob(AgentJob, 0)

\* C22 witness: the script has ended at the check of the credentials,
\* after reading its job id, with a record of the job on file.
C22_Witness ==
  /\ proc = "ended"
  /\ ~armed
  /\ JOB_ID = AgentJob
  /\ signals = 0
  /\ HasJob(doc, AgentJob)

\* A step that is one poll of the monitoring loop.
Polled ==
  /\ At("poll")
  /\ proc' = "running"
  /\ Len(stack') = Len(stack)
  /\ stack'[Len(stack')].pc # "poll"

\* C23: a poll that finds an exit code takes the exit-code arm whatever
\* the time is; it takes the timeout arm only without an exit code and with
\* the time strictly after start time plus timeout, and uploads a heartbeat
\* only when neither holds; `timedout` is published by the timeout arm
\* alone, never after a poll that found an exit code past the deadline;
\* and the deadline, once set, is start time plus timeout and stays.
C23_PollPriority ==
  [][/\ Polled =>
          LET next == stack'[Len(stack')].pc
          IN  /\ exit_code_flag # Absent => next = "exit_arm"
              /\ next = "timeout_arm" =>
                   exit_code_flag = Absent /\ current_time > start_time + TIMEOUT
              /\ next = "heartbeat" =>
                   /\ exit_code_flag = Absent
                   /\ current_time <= start_time + TIMEOUT
                   /\ current_time > next_sync
     /\ end_time # Absent =>
          end_time = start_time + TIMEOUT /\ end_time' = end_time
     /\ raced' => "timedout" \notin did'
     /\ "timedout" \in did' => arm' = "timeout"]_vars

\* C23 witness: a poll found the exit code with the deadline passed, and
\* `completed` was published.
C23_Witness ==
  /\ raced
  /\ arm = "exit"
  /\ "completed" \in did

====
